---------------------------- MODULE Spec2Model ----------------------------
(***************************************************************************)
(* Model of wrap_debug_prints.py: the rewriter that encloses print(...)    *)
(* statements of a source file in #if DEBUG / #endif guards.               *)
(*                                                                         *)
(* A line is a sequence of one-character strings, trailing newline         *)
(* included, as f.readlines() returns it; a file is the flat sequence of   *)
(* its characters.  Indices into `lines` are 0-based as in the source      *)
(* (At(lines, i) is lines[i]).  File reads and writes are taken to         *)
(* succeed; the except branches of wrap_prints_in_file are not modelled.   *)
(***************************************************************************)
EXTENDS Integers, Sequences, FiniteSets, TLC

VARIABLES
    file,          \* the characters of the file on disk
    lines,         \* wrap_prints_in_file: lines (result of f.readlines())
    new_lines,     \* wrap_prints_in_file: new_lines
    origin,        \* for each entry of new_lines, where it comes from:
                   \* the 0-based index of the input line copied, or
                   \* OpenTag / CloseTag for a marker the rewriter inserted
    i,             \* wrap_prints_in_file: i
    changes_made,  \* wrap_prints_in_file: changes_made
    pc,            \* "idle" (between calls) or "loop" (inside the while loop)
    ret,           \* the values returned by the calls made so far, in order
    writes         \* number of times the file was written

vars == <<file, lines, new_lines, origin, i, changes_made, pc, ret, writes>>

-----------------------------------------------------------------------------
(* Bounds of the model *)

MaxLen == 3        \* lines of a file of the general family
MaxRuns == 2       \* successive calls of wrap_prints_in_file on one file
MaxGuardLen == 4   \* lines of a file of the guard family, after the lead
MaxGap == 11       \* plain lines between the call and a marker, window family
MaxScanLen == 3    \* lines of a file of the scanner family, after the lead

(* Program constants *)

Window == 10       \* the literal 10 of is_already_wrapped

OpenTag == 0 - 1
CloseTag == 0 - 2

-----------------------------------------------------------------------------
(* Characters and Python string methods *)

Min(a, b) == IF a < b THEN a ELSE b
Max(a, b) == IF a > b THEN a ELSE b

NL == "\n"
BS == "\\"
DQ == "\""

\* str.isspace for the characters str.strip() / str.lstrip() remove and
\* the regex class \s matches
IsSpace(c) == c \in {" ", "\t", "\n", "\r", "\f"}

\* the regex class \w
WordChars ==
    {"a","b","c","d","e","f","g","h","i","j","k","l","m",
     "n","o","p","q","r","s","t","u","v","w","x","y","z",
     "A","B","C","D","E","F","G","H","I","J","K","L","M",
     "N","O","P","Q","R","S","T","U","V","W","X","Y","Z",
     "0","1","2","3","4","5","6","7","8","9","_"}

IsWord(c) == c \in WordChars

\* number of leading whitespace characters of s
RECURSIVE LeadingSpaces(_)
LeadingSpaces(s) ==
    IF s = <<>> \/ ~IsSpace(Head(s)) THEN 0 ELSE 1 + LeadingSpaces(Tail(s))

\* number of trailing whitespace characters of s
RECURSIVE TrailingSpaces(_)
TrailingSpaces(s) ==
    IF s = <<>> \/ ~IsSpace(s[Len(s)]) THEN 0
    ELSE 1 + TrailingSpaces(SubSeq(s, 1, Len(s) - 1))

lstrip(s) == SubSeq(s, LeadingSpaces(s) + 1, Len(s))

strip(s) ==
    LET t == lstrip(s) IN SubSeq(t, 1, Len(t) - TrailingSpaces(t))

startswith(s, prefix) ==
    /\ Len(s) >= Len(prefix)
    /\ SubSeq(s, 1, Len(prefix)) = prefix

At(ls, idx) == ls[idx + 1]

-----------------------------------------------------------------------------
(* Literals of the source *)

IfDebugText == <<"#","i","f"," ","D","E","B","U","G">>
EndifText == <<"#","e","n","d","i","f">>
PrintWord == <<"p","r","i","n","t">>
SlashSlash == <<"/","/">>
FuncPrefix == <<"f","u","n","c"," ">>
VarPrefix == <<"v","a","r"," ">>
LetPrefix == <<"l","e","t"," ">>
ClassPrefix == <<"c","l","a","s","s"," ">>
StructPrefix == <<"s","t","r","u","c","t"," ">>

IsGuardOpen(line) == startswith(strip(line), IfDebugText)
IsGuardClose(line) == startswith(strip(line), EndifText)

IsBoundary_NoLet(line) ==
    LET s == strip(line) IN
    \/ startswith(s, FuncPrefix)
    \/ startswith(s, VarPrefix)
    \/ startswith(s, ClassPrefix)
    \/ startswith(s, StructPrefix)

IsBoundary(line) ==
    LET s == strip(line) IN
    \/ startswith(s, FuncPrefix)
    \/ startswith(s, VarPrefix)
    \/ startswith(s, LetPrefix)
    \/ startswith(s, ClassPrefix)
    \/ startswith(s, StructPrefix)

\* re.search(r'\bprint\s*\(', line)
RECURSIVE SkipSpaces(_, _)
SkipSpaces(line, k) ==
    IF k <= Len(line) /\ IsSpace(line[k]) THEN SkipSpaces(line, k + 1) ELSE k

HasPrintCall(line) ==
    \E k \in 1..Len(line) :
        /\ k + 4 <= Len(line)
        /\ SubSeq(line, k, k + 4) = PrintWord
        /\ (IF k = 1 THEN TRUE ELSE ~IsWord(line[k - 1]))
        /\ LET m == SkipSpaces(line, k + 5) IN
           m <= Len(line) /\ line[m] = "("

\* the condition of the `if` at the head of the loop body
IsCandidate(line) ==
    HasPrintCall(line) /\ ~startswith(strip(line), SlashSlash)

-----------------------------------------------------------------------------
(* is_already_wrapped *)

\* the inner loop: for j in range(line_idx + 1, min(len(lines), line_idx + 10))
ForwardFindsEndif(ls, line_idx) ==
    \E j \in (line_idx + 1)..(Min(Len(ls), line_idx + Window) - 1) :
        IsGuardClose(At(ls, j))

\* the outer loop from index k downwards:
\* for i in range(line_idx - 1, max(0, line_idx - 10), -1)
RECURSIVE BackwardScan(_, _, _)
BackwardScan(ls, line_idx, k) ==
    IF k <= Max(0, line_idx - Window) THEN FALSE
    ELSE IF IsGuardOpen(At(ls, k)) /\ ForwardFindsEndif(ls, line_idx) THEN TRUE
    ELSE IF IsBoundary(At(ls, k)) THEN FALSE
    ELSE BackwardScan(ls, line_idx, k - 1)

is_already_wrapped(ls, line_idx) == BackwardScan(ls, line_idx, line_idx - 1)

-----------------------------------------------------------------------------
(* find_print_end *)

ScanInit == [paren_count |-> 0, in_string |-> FALSE, escape_next |-> FALSE,
             found |-> FALSE]

\* ScanChar without the escape_next flag
ScanChar_NoEscape(st, char) ==
    IF char = DQ /\ ~st.in_string THEN [st EXCEPT !.in_string = TRUE]
    ELSE IF char = DQ /\ st.in_string THEN [st EXCEPT !.in_string = FALSE]
    ELSE IF ~st.in_string THEN
        IF char = "(" THEN [st EXCEPT !.paren_count = @ + 1]
        ELSE IF char = ")" THEN
            [st EXCEPT !.paren_count = @ - 1, !.found = (st.paren_count - 1 = 0)]
        ELSE st
    ELSE st

\* one iteration of `for char in line`; found means `return idx` was reached
ScanChar(st, char) ==
    IF st.escape_next THEN [st EXCEPT !.escape_next = FALSE]
    ELSE IF char = BS THEN [st EXCEPT !.escape_next = TRUE]
    ELSE IF char = DQ /\ ~st.in_string THEN [st EXCEPT !.in_string = TRUE]
    ELSE IF char = DQ /\ st.in_string THEN [st EXCEPT !.in_string = FALSE]
    ELSE IF ~st.in_string THEN
        IF char = "(" THEN [st EXCEPT !.paren_count = @ + 1]
        ELSE IF char = ")" THEN
            [st EXCEPT !.paren_count = @ - 1, !.found = (st.paren_count - 1 = 0)]
        ELSE st
    ELSE st

\* ScanLine that tests the depth only once the whole line is processed
RECURSIVE ScanLine_TestAtLineEnd(_, _, _)
ScanLine_TestAtLineEnd(st, line, k) ==
    IF k > Len(line) THEN [st EXCEPT !.found = (st.paren_count = 0)]
    ELSE ScanLine_TestAtLineEnd(
             [ScanChar(st, line[k]) EXCEPT !.found = FALSE], line, k + 1)

\* the inner loop over the characters of one line, from position k
RECURSIVE ScanLine(_, _, _)
ScanLine(st, line, k) ==
    IF st.found \/ k > Len(line) THEN st
    ELSE ScanLine(ScanChar(st, line[k]), line, k + 1)

\* ScanFrom that returns the last index when the input ends
RECURSIVE ScanFrom_NoFallback(_, _, _, _)
ScanFrom_NoFallback(ls, start_idx, idx, st) ==
    IF idx >= Len(ls) THEN Len(ls) - 1
    ELSE LET st2 == ScanLine(st, At(ls, idx), 1) IN
         IF st2.found THEN idx
         ELSE ScanFrom_NoFallback(ls, start_idx, idx + 1, st2)

\* ScanFrom that returns one line too far
RECURSIVE ScanFrom_OneTooFar(_, _, _, _)
ScanFrom_OneTooFar(ls, start_idx, idx, st) ==
    IF idx >= Len(ls) THEN start_idx
    ELSE LET st2 == ScanLine(st, At(ls, idx), 1) IN
         IF st2.found THEN Min(idx + 1, Len(ls) - 1)
         ELSE ScanFrom_OneTooFar(ls, start_idx, idx + 1, st2)

\* the outer loop: for idx in range(start_idx, len(lines))
RECURSIVE ScanFrom(_, _, _, _)
ScanFrom(ls, start_idx, idx, st) ==
    IF idx >= Len(ls) THEN start_idx
    ELSE LET st2 == ScanLine(st, At(ls, idx), 1) IN
         IF st2.found THEN idx ELSE ScanFrom(ls, start_idx, idx + 1, st2)

find_print_end(ls, start_idx) == ScanFrom(ls, start_idx, start_idx, ScanInit)

-----------------------------------------------------------------------------
(* get_indentation and the two markers *)

get_indentation(line) == Len(line) - Len(lstrip(line))

Spaces(n) == [k \in 1..n |-> " "]

GuardOpenLine(line) == Spaces(get_indentation(line)) \o IfDebugText \o <<NL>>
GuardCloseLine_NoIndent(line) == EndifText \o <<NL>>

GuardCloseLine(line) == Spaces(get_indentation(line)) \o EndifText \o <<NL>>

\* the lines a block encloses, for j in range(i, end_idx + 1), each with
\* its index
EmittedSpan_DropLast(ls, first, last) ==
    [k \in 1..(last - first) |->
        [idx |-> first + k - 1, text |-> At(ls, first + k - 1)]]

EmittedSpan(ls, first, last) ==
    [k \in 1..(last - first + 1) |->
        [idx |-> first + k - 1, text |-> At(ls, first + k - 1)]]

-----------------------------------------------------------------------------
(* File input and output *)

\* f.readlines(): cut after every newline; a last line may lack one
RECURSIVE SplitLines(_)
SplitLines(text) ==
    IF text = <<>> THEN <<>>
    ELSE LET ends == {k \in 1..Len(text) : text[k] = NL} IN
         IF ends = {} THEN <<text>>
         ELSE LET first == CHOOSE k \in ends : \A m \in ends : k <= m IN
              <<SubSeq(text, 1, first)>>
                  \o SplitLines(SubSeq(text, first + 1, Len(text)))

readlines(text) == SplitLines(text)

\* f.writelines(new_lines): the lines one after the other, nothing added
RECURSIVE writelines(_)
writelines(ls) == IF ls = <<>> THEN <<>> ELSE Head(ls) \o writelines(Tail(ls))

-----------------------------------------------------------------------------
(* Input files *)

Txt_print == <<" ","p","r","i","n","t","(","a",")">>
Txt_ifdebug == IfDebugText
Txt_endif == EndifText
Txt_let == <<"l","e","t"," ","x">>
Txt_comment == <<"/","/","p","r","i","n","t","(","a",")">>
Txt_close == <<")">>
Txt_plain == <<"x">>
\* print("\")",      an escaped quote, then a parenthesis inside the string
Txt_multi == <<"p","r","i","n","t","(",DQ,BS,DQ,")",DQ,",">>
\* print("\\")       an escaped backslash, then the closing quote
Txt_bsbs == <<"p","r","i","n","t","(",DQ,BS,BS,DQ,")">>
\* print(a);f(       a call closed on the line, and a second one left open
Txt_reopen == <<"p","r","i","n","t","(","a",")",";","f","(">>

Pool == {Txt_print, Txt_ifdebug, Txt_endif, Txt_comment, Txt_close, Txt_multi}
GuardPool == {Txt_print, Txt_ifdebug, Txt_endif, Txt_let}
ScanPool == {Txt_multi, Txt_bsbs, Txt_reopen, Txt_close, Txt_print}

\* the text of a file whose lines are body; the last line ends with a
\* newline iff eol
RECURSIVE FileOf(_, _)
FileOf(body, eol) ==
    IF body = <<>> THEN <<>>
    ELSE IF Len(body) = 1 THEN (IF eol THEN Head(body) \o <<NL>> ELSE Head(body))
    ELSE Head(body) \o <<NL>> \o FileOf(Tail(body), eol)

Repeat(line, n) == [k \in 1..n |-> line]

GeneralFiles ==
    {FileOf(body, eol) :
        body \in UNION {[1..n -> Pool] : n \in 0..MaxLen}, eol \in BOOLEAN}

\* lines of the guard pool, after a declaration line when lead
GuardFiles ==
    {FileOf((IF lead THEN <<Txt_let>> ELSE <<>>) \o body, TRUE) :
        lead \in BOOLEAN,
        body \in UNION {[1..n -> GuardPool] : n \in 0..MaxGuardLen}}

\* lines of the scanner pool, after the start of a multi-line statement
\* when lead
ScanFiles ==
    {FileOf((IF lead THEN <<Txt_multi>> ELSE <<>>) \o body, TRUE) :
        lead \in BOOLEAN,
        body \in UNION {[1..n -> ScanPool] : n \in 0..MaxScanLen}}

\* a guard-open marker, b plain lines, the call, c plain lines, a guard-close
\* marker; a plain line in front when lead
WindowFile(lead, b, c) ==
    FileOf((IF lead THEN <<Txt_plain>> ELSE <<>>) \o <<Txt_ifdebug>>
           \o Repeat(Txt_plain, b) \o <<Txt_print>>
           \o Repeat(Txt_plain, c) \o <<Txt_endif>>, TRUE)

\* the distance to one of the two markers varies, the other marker is
\* next to the call
WindowFiles ==
    {WindowFile(lead, gap, 0) : lead \in BOOLEAN, gap \in 0..MaxGap}
    \cup {WindowFile(lead, 0, gap) : lead \in BOOLEAN, gap \in 0..MaxGap}

-----------------------------------------------------------------------------
(* wrap_prints_in_file as a state machine *)

Init ==
    /\ file \in GeneralFiles \cup GuardFiles \cup ScanFiles \cup WindowFiles
    /\ lines = <<>>
    /\ new_lines = <<>>
    /\ origin = <<>>
    /\ i = 0
    /\ changes_made = 0
    /\ pc = "idle"
    /\ ret = <<>>
    /\ writes = 0

\* entry: the file is read, the locals are initialised
Open ==
    /\ pc = "idle"
    /\ Len(ret) < MaxRuns
    /\ lines' = readlines(file)
    /\ new_lines' = <<>>
    /\ origin' = <<>>
    /\ i' = 0
    /\ changes_made' = 0
    /\ pc' = "loop"
    /\ UNCHANGED <<file, ret, writes>>

\* a loop iteration that wraps the statement starting at line i
WrapStep ==
    /\ pc = "loop"
    /\ i < Len(lines)
    /\ IsCandidate(At(lines, i))
    /\ ~is_already_wrapped(lines, i)
    /\ LET end_idx == find_print_end(lines, i)
           line == At(lines, i)
           span == EmittedSpan(lines, i, end_idx)
       IN  /\ new_lines' = new_lines \o <<GuardOpenLine(line)>>
                           \o [k \in DOMAIN span |-> span[k].text]
                           \o <<GuardCloseLine(line)>>
           /\ origin' = origin \o <<OpenTag>>
                        \o [k \in DOMAIN span |-> span[k].idx]
                        \o <<CloseTag>>
           /\ i' = end_idx + 1
    /\ changes_made' = changes_made + 1
    /\ UNCHANGED <<file, lines, pc, ret, writes>>

\* a loop iteration that passes line i through
CopyStep ==
    /\ pc = "loop"
    /\ i < Len(lines)
    /\ ~(IsCandidate(At(lines, i)) /\ ~is_already_wrapped(lines, i))
    /\ new_lines' = Append(new_lines, At(lines, i))
    /\ origin' = Append(origin, i)
    /\ i' = i + 1
    /\ UNCHANGED <<file, lines, changes_made, pc, ret, writes>>

\* loop exit with changes: the file is rewritten, changes_made is returned
WriteBack ==
    /\ pc = "loop"
    /\ i >= Len(lines)
    /\ changes_made > 0
    /\ file' = writelines(new_lines)
    /\ writes' = writes + 1
    /\ ret' = Append(ret, changes_made)
    /\ pc' = "idle"
    /\ UNCHANGED <<lines, new_lines, origin, i, changes_made>>

\* loop exit without changes: nothing is written, 0 is returned
ReturnUnchanged ==
    /\ pc = "loop"
    /\ i >= Len(lines)
    /\ changes_made = 0
    /\ ret' = Append(ret, changes_made)
    /\ pc' = "idle"
    /\ UNCHANGED <<file, lines, new_lines, origin, i, changes_made, writes>>

Next == Open \/ WrapStep \/ CopyStep \/ WriteBack \/ ReturnUnchanged

Spec == Init /\ [][Next]_vars

TypeOK ==
    /\ pc \in {"idle", "loop"}
    /\ i \in 0..Len(lines)
    /\ Len(origin) = Len(new_lines)
    /\ Len(ret) <= MaxRuns

-----------------------------------------------------------------------------
(* Vocabulary of the properties *)

\* a call of wrap_prints_in_file has returned; lines, new_lines, origin and
\* changes_made are those of the call that returned last
AtExit == pc = "idle" /\ ret # <<>>

Indices(ls) == 0..(Len(ls) - 1)

\* the entries of new_lines that were copied from the input, in order
RECURSIVE Kept(_, _)
Kept(out, org) ==
    IF out = <<>> THEN <<>>
    ELSE IF Head(org) >= 0 THEN <<Head(out)>> \o Kept(Tail(out), Tail(org))
    ELSE Kept(Tail(out), Tail(org))

RECURSIVE KeptIndices(_)
KeptIndices(org) ==
    IF org = <<>> THEN <<>>
    ELSE IF Head(org) >= 0 THEN <<Head(org)>> \o KeptIndices(Tail(org))
    ELSE KeptIndices(Tail(org))

\* position in new_lines (1-based) of input line p
PosOf(org, p) == CHOOSE q \in 1..Len(org) : org[q] = p

\* number of guard-open lines before line p (0-based) of ls that no
\* guard-close line before p closes
RECURSIVE OpenDepthBefore(_, _)
OpenDepthBefore(ls, p) ==
    IF p <= 0 THEN 0
    ELSE LET d == OpenDepthBefore(ls, p - 1)
             l == At(ls, p - 1)
         IN  IF IsGuardOpen(l) THEN d + 1
             ELSE IF IsGuardClose(l) THEN Max(0, d - 1)
             ELSE d

\* number of guard-close lines after line p of ls that close no guard-open
\* line after p
RECURSIVE CloseDepthAfter(_, _)
CloseDepthAfter(ls, p) ==
    IF p >= Len(ls) - 1 THEN 0
    ELSE LET d == CloseDepthAfter(ls, p + 1)
             l == At(ls, p + 1)
         IN  IF IsGuardClose(l) THEN d + 1
             ELSE IF IsGuardOpen(l) THEN Max(0, d - 1)
             ELSE d

\* line p of ls lies between a guard-open line and its matching guard-close
EnclosedByGuard(ls, p) ==
    OpenDepthBefore(ls, p) > 0 /\ CloseDepthAfter(ls, p) > 0

\* least element of a non-empty set of integers
Least(S) == CHOOSE x \in S : \A y \in S : x <= y

-----------------------------------------------------------------------------
(* C1  Idempotence *)

\* C1: a second application of wrap_prints_in_file, to the file the first
\* application left, wraps no statement, inserts no marker and writes nothing.
C1_Idempotence ==
    (pc = "idle" /\ Len(ret) = 2) =>
        /\ ret[2] = 0
        /\ new_lines = lines
        /\ writes = (IF ret[1] > 0 THEN 1 ELSE 0)

-----------------------------------------------------------------------------
(* C2  Guard pairing *)

\* the first position after p holding a line that satisfies IsOpen, or the
\* position after the last line
NextOpenAfter(p, IsOpen(_)) ==
    Least({q \in (p + 1)..Len(new_lines) : IsOpen(q)} \cup {Len(new_lines) + 1})

PairedAt(p, IsOpen(_), IsClose(_)) ==
    LET closes == {q \in (p + 1)..(NextOpenAfter(p, IsOpen) - 1) : IsClose(q)}
    IN  /\ Cardinality(closes) = 1
        /\ \A q \in closes :
              /\ get_indentation(new_lines[q]) = get_indentation(new_lines[p + 1])
              /\ get_indentation(new_lines[p]) = get_indentation(new_lines[p + 1])

TextOpen(q) == IsGuardOpen(new_lines[q])
TextClose(q) == IsGuardClose(new_lines[q])
EmittedOpen(q) == origin[q] = OpenTag
EmittedClose(q) == origin[q] = CloseTag

\* C2 as stated: every guard-open marker the rewriter emitted is followed by
\* exactly one guard-close line before the next guard-open line or the end
\* of the output, both indented like the first enclosed line.
C2_PairedAmongAllMarkers ==
    \A p \in 1..Len(new_lines) :
        EmittedOpen(p) => PairedAt(p, TextOpen, TextClose)

\* C2 amended: every guard-open marker the rewriter emitted is followed by
\* exactly one guard-close marker the rewriter emitted before the next
\* guard-open marker it emitted or the end of the output; both are marker
\* lines indented like the first enclosed line.
C2_PairedAmongEmitted ==
    \A p \in 1..Len(new_lines) :
        EmittedOpen(p) =>
            /\ TextOpen(p)
            /\ PairedAt(p, EmittedOpen, EmittedClose)
            /\ \A q \in (p + 1)..(NextOpenAfter(p, EmittedOpen) - 1) :
                  EmittedClose(q) => TextClose(q)

\* two blocks were emitted, one of them around an indented statement
C2_Witness ==
    /\ AtExit
    /\ changes_made >= 2
    /\ \E p \in 1..Len(new_lines) :
          EmittedOpen(p) /\ get_indentation(new_lines[p]) > 0

-----------------------------------------------------------------------------
(* C3  Content preservation *)

\* C3: the output without the lines the rewriter inserted is the input read
\* so far, every input line once, unchanged and in order; the output is two
\* lines longer than the input per wrapped statement.
C3_ContentPreserved ==
    /\ Kept(new_lines, origin) = SubSeq(lines, 1, i)
    /\ KeptIndices(origin) = [k \in 1..i |-> k - 1]
    /\ Len(new_lines) = i + 2 * changes_made
    /\ AtExit => i = Len(lines)

\* a multi-line statement was wrapped and lines were passed through
C3_Witness ==
    /\ AtExit
    /\ changes_made >= 1
    /\ Len(lines) > changes_made + 1
    /\ \E q \in 1..(Len(origin) - 2) :
          origin[q] = OpenTag /\ origin[q + 2] >= 0

-----------------------------------------------------------------------------
(* C4  Coverage *)

\* position q of the output lies inside a block the rewriter emitted
InEmittedBlock(q) ==
    \E a \in 1..(q - 1) :
        /\ EmittedOpen(a)
        /\ \A m \in (a + 1)..q : origin[m] >= 0

\* C4: every input line that holds a print( call, does not start with //
\* and lies in no valid guard-open/guard-close pair of the input lies, in
\* the output, between a guard-open marker and its matching guard-close
\* marker (a pair the rewriter emitted, or a matching pair of the text).
C4_Coverage ==
    AtExit =>
        \A p \in Indices(lines) :
            (IsCandidate(At(lines, p)) /\ ~EnclosedByGuard(lines, p)) =>
                \/ InEmittedBlock(PosOf(origin, p))
                \/ EnclosedByGuard(new_lines, PosOf(origin, p) - 1)

-----------------------------------------------------------------------------
(* The nesting rules of the Statement-End Locator, stated position by      *)
(* position over the text t scanned: the characters of the lines from the  *)
(* start line to the end of the file.                                      *)

RECURSIVE TextFrom(_, _)
TextFrom(ls, idx) ==
    IF idx >= Len(ls) THEN <<>> ELSE At(ls, idx) \o TextFrom(ls, idx + 1)

\* for every position of t, the index of the line it belongs to
RECURSIVE LineIndexFrom(_, _)
LineIndexFrom(ls, idx) ==
    IF idx >= Len(ls) THEN <<>>
    ELSE [k \in 1..Len(At(ls, idx)) |-> idx] \o LineIndexFrom(ls, idx + 1)

\* Each of the sequences below is given by a recurrence from one position
\* to the next. A stretch lo..hi is computed in two halves, the second
\* from the last value of the first, so that the evaluation nests no deeper
\* than the logarithm of the length of t.

\* esc[n]: the character at n is made literal by a backslash before it,
\* that is, it follows an odd run of backslashes. prev is esc[lo - 1].
RECURSIVE EscapedIn(_, _, _, _)
EscapedIn(t, lo, hi, prev) ==
    IF lo > hi THEN <<>>
    ELSE IF lo = hi THEN
        <<IF lo = 1 THEN FALSE ELSE (t[lo - 1] = BS /\ ~prev)>>
    ELSE LET mid == (lo + hi) \div 2
             left == EscapedIn(t, lo, mid, prev)
         IN  left \o EscapedIn(t, mid + 1, hi, left[Len(left)])

\* q[n]: the character at n lies inside a double-quoted region, that is, an
\* odd number of quote characters that are not escaped precede it. prev is
\* q[lo - 1].
RECURSIVE QuotedIn(_, _, _, _, _)
QuotedIn(t, esc, lo, hi, prev) ==
    IF lo > hi THEN <<>>
    ELSE IF lo = hi THEN
        <<IF lo = 1 THEN FALSE
          ELSE IF t[lo - 1] = DQ /\ ~esc[lo - 1] THEN ~prev
          ELSE prev>>
    ELSE LET mid == (lo + hi) \div 2
             left == QuotedIn(t, esc, lo, mid, prev)
         IN  left \o QuotedIn(t, esc, mid + 1, hi, left[Len(left)])

\* d[n]: the nesting depth after the character at n; only parentheses that
\* are neither escaped nor inside a quoted region count. before is d[lo - 1]
\* (0 when lo = 1).
RECURSIVE DepthIn(_, _, _, _, _, _)
DepthIn(t, esc, q, lo, hi, before) ==
    IF lo > hi THEN <<>>
    ELSE IF lo = hi THEN
        <<IF esc[lo] \/ q[lo] THEN before
          ELSE IF t[lo] = "(" THEN before + 1
          ELSE IF t[lo] = ")" THEN before - 1
          ELSE before>>
    ELSE LET mid == (lo + hi) \div 2
             left == DepthIn(t, esc, q, lo, mid, before)
         IN  left \o DepthIn(t, esc, q, mid + 1, hi, left[Len(left)])

Nesting(ls, start_idx) ==
    LET t == TextFrom(ls, start_idx)
        esc == EscapedIn(t, 1, Len(t), FALSE)
        q == QuotedIn(t, esc, 1, Len(t), FALSE)
    IN  [text |-> t, escaped |-> esc, quoted |-> q,
         depth |-> DepthIn(t, esc, q, 1, Len(t), 0),
         line |-> LineIndexFrom(ls, start_idx)]

DepthBefore(nest, n) == IF n = 1 THEN 0 ELSE nest.depth[n - 1]

\* the positions at which the depth returns to zero from above
ReturnsToZero(nest) ==
    {n \in 1..Len(nest.text) : nest.depth[n] = 0 /\ DepthBefore(nest, n) > 0}

\* the last position of each line at whose end the depth is zero, having
\* been positive before
ZeroAtLineEnd(nest) ==
    {n \in 1..Len(nest.text) :
        /\ (n = Len(nest.text) \/ nest.line[n + 1] # nest.line[n])
        /\ nest.depth[n] = 0
        /\ \E m \in 1..n : nest.depth[m] > 0}

\* the states of the scanner of find_print_end before each of the
\* characters lo..hi of t; st is the state before the character at lo
RECURSIVE ScanStatesIn(_, _, _, _)
ScanStatesIn(t, lo, hi, st) ==
    IF lo > hi THEN <<>>
    ELSE IF lo = hi THEN <<st>>
    ELSE LET mid == (lo + hi) \div 2
             left == ScanStatesIn(t, lo, mid, st)
         IN  left \o ScanStatesIn(t, mid + 1, hi,
                                  ScanChar(left[Len(left)], t[mid]))

\* the lines on which the rewriter may call find_print_end
Candidates(ls) == {p \in Indices(ls) : IsCandidate(At(ls, p))}

\* the file has just been read
JustRead == pc = "loop" /\ i = 0

NoDelimiter(line) == \A k \in 1..Len(line) : line[k] \notin {"(", ")", DQ, BS}

\* the statement that starts at line p closes on line p
SingleLine(ls, p) ==
    LET nest == Nesting(ls, p) IN
    /\ ReturnsToZero(nest) # {}
    /\ nest.line[Least(ReturnsToZero(nest))] = p

-----------------------------------------------------------------------------
(* C5  Escape/quote-aware nesting *)

\* a statement of three or more lines: the line print("\")", then lines
\* without parenthesis, quote or backslash, then the line )
TrickyStatement(ls, first, last) ==
    /\ first < last
    /\ At(ls, first) = Txt_multi \o <<NL>>
    /\ strip(At(ls, last)) = Txt_close
    /\ \A m \in (first + 1)..(last - 1) : NoDelimiter(At(ls, m))

\* what C5 says of the scan started at line p; QuoteIsEscaped(nest, n) tells
\* when the quote at position n counts as preceded by a backslash
NestingRespected(ls, p, QuoteIsEscaped(_, _)) ==
    LET nest == Nesting(ls, p)
        t == nest.text
        sts == ScanStatesIn(t, 1, Len(t), ScanInit)
    IN  \A n \in 1..Len(t) :
            LET after == ScanChar(sts[n], t[n]) IN
            ~sts[n].found =>
                /\ (t[n] \in {"(", ")"} /\ nest.quoted[n]) =>
                      after.paren_count = sts[n].paren_count
                /\ (t[n] = DQ /\ QuoteIsEscaped(nest, n)) =>
                      after.in_string = sts[n].in_string

ReturnsRealEnd(ls) ==
    \A first, last \in Indices(ls) :
        TrickyStatement(ls, first, last) => find_print_end(ls, first) = last

AfterBackslash(nest, n) == n > 1 /\ nest.text[n - 1] = BS
AfterEscapingBackslash(nest, n) == nest.escaped[n]

\* C5 as stated: in find_print_end a parenthesis inside a quoted region
\* never changes the depth and a quote that follows a backslash never
\* toggles the quoted-region flag; for the statement print("\")", ... )
\* the locator returns the line of the real closing parenthesis.
C5_QuoteAfterAnyBackslash ==
    JustRead =>
        /\ \A p \in Candidates(lines) : NestingRespected(lines, p, AfterBackslash)
        /\ ReturnsRealEnd(lines)

\* C5 amended: as stated, for a quote that follows a backslash which is not
\* itself escaped (a quote after an escaped backslash, as in "\\", does
\* toggle the flag).
C5_QuoteAfterEscapingBackslash ==
    JustRead =>
        /\ \A p \in Candidates(lines) :
              NestingRespected(lines, p, AfterEscapingBackslash)
        /\ ReturnsRealEnd(lines)

\* the three-line statement of the claim was read and wrapped as a whole
C5_Witness ==
    /\ AtExit
    /\ \E p \in Indices(lines) :
          /\ p + 2 \in Indices(lines)
          /\ TrickyStatement(lines, p, p + 2)
          /\ \E q \in 1..(Len(origin) - 4) :
                /\ origin[q] = OpenTag
                /\ origin[q + 1] = p
                /\ origin[q + 4] = CloseTag

-----------------------------------------------------------------------------
(* C6  Boundary abort *)

C6_Example ==
    <<Txt_ifdebug \o <<NL>>, Txt_let \o <<NL>>, Txt_print \o <<NL>>,
      Txt_endif \o <<NL>>>>

C6_ExampleOutput ==
    <<Txt_ifdebug \o <<NL>>, Txt_let \o <<NL>>,
      <<" ">> \o IfDebugText \o <<NL>>, Txt_print \o <<NL>>,
      <<" ">> \o EndifText \o <<NL>>, Txt_endif \o <<NL>>>>

DeclarationKeywords ==
    {<<"f","u","n","c">>, <<"v","a","r">>, <<"l","e","t">>,
     <<"c","l","a","s","s">>, <<"s","t","r","u","c","t">>}

\* the line starts, after its indentation, with one of the keywords
StartsDeclaration(line) ==
    \E kw \in DeclarationKeywords : startswith(strip(line), kw \o <<" ">>)

\* a declaration line at b precedes line p, no guard-open line lies between
BoundaryBefore(ls, p, b) ==
    /\ b < p
    /\ StartsDeclaration(At(ls, b))
    /\ \A m \in (b + 1)..(p - 1) : ~IsGuardOpen(At(ls, m))

\* C6: when a declaration-boundary line precedes line p with no guard-open
\* line between the two, is_already_wrapped reports not wrapped, whatever
\* lies farther back; the input guard-open, declaration, call, guard-close
\* comes out with the call in a guard pair of its own.
C6_BoundaryAbort ==
    /\ JustRead =>
          \A p \in Candidates(lines) : \A b \in Indices(lines) :
              BoundaryBefore(lines, p, b) => ~is_already_wrapped(lines, p)
    /\ (AtExit /\ lines = C6_Example) =>
          (new_lines = C6_ExampleOutput /\ changes_made = 1)

\* a call was wrapped that has a declaration line before it, a guard-open
\* line farther back within reach of the backward scan, and a guard-close
\* line within reach of the forward scan
C6_Witness ==
    /\ AtExit
    /\ \E p \in Candidates(lines) : \E b, k \in Indices(lines) :
          /\ 0 < k
          /\ k < b
          /\ BoundaryBefore(lines, p, b)
          /\ IsGuardOpen(At(lines, k))
          /\ ForwardFindsEndif(lines, p)
          /\ origin[PosOf(origin, p) - 1] = OpenTag

-----------------------------------------------------------------------------
(* C7  Fail-soft on unterminated statements *)

Unterminated(ls, p) == ReturnsToZero(Nesting(ls, p)) = {}

\* C7: when the depth never returns to zero from line p to the end of the
\* input, find_print_end returns p, and the block emitted for line p
\* encloses line p alone.
C7_FailSoft ==
    /\ JustRead =>
          \A p \in Candidates(lines) :
              Unterminated(lines, p) => find_print_end(lines, p) = p
    /\ AtExit =>
          \A q \in 1..Len(origin) :
              (origin[q] = OpenTag /\ Unterminated(lines, origin[q + 1])) =>
                  origin[q + 2] = CloseTag

\* a block was emitted for an unterminated statement that is not the last
\* line of the input
C7_Witness ==
    /\ AtExit
    /\ \E q \in 1..Len(origin) :
          /\ origin[q] = OpenTag
          /\ Unterminated(lines, origin[q + 1])
          /\ origin[q + 1] < Len(lines) - 1

-----------------------------------------------------------------------------
(* C8  Per-line independence *)

\* lines p and p + 1 are single-line call statements the Wrap Detector
\* reports not wrapped
TwoPlainCalls(p) ==
    /\ p \in Candidates(lines)
    /\ p + 1 \in Candidates(lines)
    /\ SingleLine(lines, p)
    /\ SingleLine(lines, p + 1)
    /\ ~is_already_wrapped(lines, p)
    /\ ~is_already_wrapped(lines, p + 1)

\* each of the two lines is emitted in a pair of its own, one after the other
SeparatePairs(p) ==
    LET q == PosOf(origin, p) IN
    /\ q > 1
    /\ q + 4 <= Len(origin)
    /\ origin[q - 1] = OpenTag
    /\ origin[q + 1] = CloseTag
    /\ origin[q + 2] = OpenTag
    /\ origin[q + 3] = p + 1
    /\ origin[q + 4] = CloseTag

\* line p lies inside the block emitted for a statement that starts on an
\* earlier line
InsideEarlierBlock(p) ==
    LET q == PosOf(origin, p) IN
    InEmittedBlock(q) /\ origin[q - 1] # OpenTag

\* C8 as stated: two consecutive single-line call statements, both not
\* already wrapped, are each emitted in their own guard pair; no single
\* pair encloses both.
C8_AlwaysSeparatePairs ==
    AtExit =>
        \A p \in Indices(lines) : TwoPlainCalls(p) => SeparatePairs(p)

\* C8 amended: as stated, for two statements that are not inside the span
\* of a multi-line statement starting on an earlier line (the lines of
\* such a span are emitted inside that statement's single pair).
C8_SeparatePairsOutsideSpans ==
    AtExit =>
        \A p \in Indices(lines) :
            (TwoPlainCalls(p) /\ ~InsideEarlierBlock(p)) => SeparatePairs(p)

\* two consecutive single-line calls were wrapped
C8_Witness ==
    /\ AtExit
    /\ \E p \in Indices(lines) :
          TwoPlainCalls(p) /\ ~InsideEarlierBlock(p) /\ SeparatePairs(p)

-----------------------------------------------------------------------------
(* C9  Statement-end line *)

\* C9 as stated: when the depth from line p becomes positive and later
\* returns to zero, find_print_end returns the first line at whose end the
\* depth is zero, having been positive before.
C9_FirstLineEndingAtZero ==
    JustRead =>
        \A p \in Candidates(lines) :
            LET nest == Nesting(lines, p) IN
            (ReturnsToZero(nest) # {} /\ ZeroAtLineEnd(nest) # {}) =>
                find_print_end(lines, p) = nest.line[Least(ZeroAtLineEnd(nest))]

\* C9 amended: when the depth from line p becomes positive and later
\* returns to zero, find_print_end returns the first line on which the
\* depth returns to zero, whatever follows on that line.
C9_FirstLineReachingZero ==
    JustRead =>
        \A p \in Candidates(lines) :
            LET nest == Nesting(lines, p) IN
            ReturnsToZero(nest) # {} =>
                find_print_end(lines, p) = nest.line[Least(ReturnsToZero(nest))]

\* a statement was read whose depth returns to zero on a later line, and
\* one whose line goes on after the depth returned to zero
C9_Witness ==
    /\ JustRead
    /\ \E p \in Candidates(lines) :
          LET nest == Nesting(lines, p) IN
          /\ ReturnsToZero(nest) # {}
          /\ nest.line[Least(ReturnsToZero(nest))] > p
    /\ \E p \in Candidates(lines) :
          LET nest == Nesting(lines, p) IN
          /\ ReturnsToZero(nest) # {}
          /\ nest.depth[Len(At(lines, p))] > 0
          /\ nest.line[Least(ReturnsToZero(nest))] = p

-----------------------------------------------------------------------------
(* C10  Wrap Detector window *)

BackwardFindsWithin(ls, p, w) ==
    \E k \in Max(0, p - w)..(p - 1) :
        /\ IsGuardOpen(At(ls, k))
        /\ \A m \in (k + 1)..(p - 1) : ~IsBoundary(At(ls, m))

ForwardFindsWithin(ls, p, w) ==
    \E j \in (p + 1)..Min(Len(ls) - 1, p + w) : IsGuardClose(At(ls, j))

\* C10: is_already_wrapped reports wrapped exactly when one of the 10 lines
\* before the candidate is a guard-open line with no declaration-boundary
\* line between it and the candidate, and one of the 10 lines after the
\* candidate is a guard-close line.
C10_WindowOfTen ==
    JustRead =>
        \A p \in Candidates(lines) :
            is_already_wrapped(lines, p) <=>
                /\ BackwardFindsWithin(lines, p, Window)
                /\ ForwardFindsWithin(lines, p, Window)

=============================================================================
